---- MODULE Spec2Model ----
(***************************************************************************)
(* Model of api.js, the public API of the New Relic Node.js agent:         *)
(* transaction naming, ignoring, error noticing, naming/ignoring rules and *)
(* the browser timing (RUM) header with its obfuscation.                   *)
(*                                                                         *)
(* JavaScript values are encoded as sequences so that they can be compared *)
(* with each other: a string is the sequence of its character codes (the   *)
(* empty string is << >>), and undefined, null, true and false are the     *)
(* one-element sequences below, which are no string since their element is *)
(* no character code.                                                      *)
(***************************************************************************)
EXTENDS Integers, Sequences, FiniteSets, TLC

VARIABLES
  config,       \* agent.config: the configuration snapshot
  transaction,  \* what agent.tracer.getTransaction() returns
  rules,        \* the rules handed to agent.userNormalizer.addSimple, in call order
  errors,       \* the agent.errors.add(transaction, error) calls of the last API call
  log,          \* the logger calls of the last API call
  ret,          \* how the last API call ended: its return value, or a throw
  last,         \* the last operation and its arguments
  obf           \* _rumObfuscate applied on its own: [string, license_key, out]

vars == <<config, transaction, rules, errors, log, ret, last, obf>>

---------------------------------------------------------------------------
(* JavaScript values *)

Undefined == << -1 >>
Null      == << -2 >>
True      == << -3 >>
False     == << -4 >>

\* JavaScript truthiness, as the tests !x of the source read it.
Truthy(v) == v \notin {Undefined, Null, False, << >>}

\* a || b
Or(a, b) == IF Truthy(a) THEN a ELSE b

---------------------------------------------------------------------------
(* Bounds and input sets *)

MaxRules   == 2     \* rules registered in one behaviour
MaxTextLen == 3     \* length of the enumerated texts fed to _rumObfuscate

Foo      == <<70, 111, 111>>                    \* "Foo"
List     == <<108, 105, 115, 116>>              \* "list"
POST     == <<80, 79, 83, 84>>                  \* "POST"
UrlX     == <<47, 120>>                         \* "/x"
PatternA == <<94, 47, 97>>                      \* "^/a"
NameB    == <<66>>                              \* "B"
Boom     == <<98, 111, 111, 109>>               \* "boom"
Key13    == <<48, 49, 50, 51, 52, 53, 54, 55, 56, 57, 65, 66, 67>>  \* "0123456789ABC"
KeyShort == <<97, 98, 99>>                      \* "abc"
KeyOne   == <<107>>                             \* "k"
AppId    == <<52, 50>>                          \* "42"
BrowserKey == <<97, 98, 99, 49, 50, 51>>        \* "abc123"
AgentFile   == <<110, 114, 46, 106, 115>>                   \* "nr.js"
AgentLoader == <<108, 111, 97, 100, 101, 114, 40, 41>>      \* "loader()"
Beacon      == <<98, 101, 97, 99, 111, 110>>                \* "beacon"
ErrorBeacon == <<101, 114, 114, 98, 101, 97, 99, 111, 110>> \* "errbeacon"

Names       == {Undefined, << >>, Foo}
ActionArgs  == {Undefined, << >>, List}
Verbs       == {Undefined, POST}
Urls        == {Undefined, UrlX}
Ignored     == {True, False}
Patterns    == {<< >>, PatternA}
RuleNames   == {<< >>, NameB}
ErrorValues == {Undefined, Boom}
Durations   == {0, 10}

---------------------------------------------------------------------------
(* Constants of the source *)

\* NAMES.CUSTOM and NAMES.CONTROLLER: the prefixes the comments of
\* setTransactionName and setControllerName give
CUSTOM     == <<67, 117, 115, 116, 111, 109>>                       \* "Custom"
CONTROLLER == <<67, 111, 110, 116, 114, 111, 108, 108, 101, 114>>   \* "Controller"
Slash      == <<47>>                                                \* "/"
GET        == <<71, 69, 84>>                                        \* "GET"

RUM_STUB == <<"<script type='text/javascript'>window.NREUM||(NREUM={});NREUM.info = ",
              "; ", "</script>">>

RUM_ISSUES == <<
  "NREUM: no browser monitoring headers generated; disabled",
  "NREUM: transaction missing while generating browser monitoring headers",
  "NREUM: conf.browser_monitoring missing, something is probably wrong",
  "NREUM: browser_monitoring headers need a transaction name",
  "NREUM: browser_monitoring requires valid application_id",
  "NREUM: browser_monitoring requires valid browser_key" >>

\* the modulus of license_key[i % 13]
KeyCycle == 13

---------------------------------------------------------------------------
(* _rumObfuscate *)

RECURSIVE Xor(_, _, _)
\* a ^ b on `bits` bits
Xor(a, b, bits) ==
  IF bits = 0 THEN 0
  ELSE ((a + b) % 2) + 2 * Xor(a \div 2, b \div 2, bits - 1)

\* The base64 alphabet: the character code of the digit i.
B64Char(i) ==
  IF i < 26 THEN 65 + i
  ELSE IF i < 52 THEN 97 + (i - 26)
  ELSE IF i < 62 THEN 48 + (i - 52)
  ELSE IF i = 62 THEN 43 ELSE 47

B64Pad == 61

RECURSIVE Base64(_)
\* bytes.toString('base64')
Base64(bytes) ==
  IF Len(bytes) = 0 THEN << >>
  ELSE IF Len(bytes) = 1 THEN
    << B64Char(bytes[1] \div 4), B64Char((bytes[1] % 4) * 16), B64Pad, B64Pad >>
  ELSE IF Len(bytes) = 2 THEN
    << B64Char(bytes[1] \div 4),
       B64Char((bytes[1] % 4) * 16 + bytes[2] \div 16),
       B64Char((bytes[2] % 16) * 4), B64Pad >>
  ELSE
    << B64Char(bytes[1] \div 4),
       B64Char((bytes[1] % 4) * 16 + bytes[2] \div 16),
       B64Char((bytes[2] % 16) * 4 + bytes[3] \div 64),
       B64Char(bytes[3] % 64) >> \o Base64(SubSeq(bytes, 4, Len(bytes)))

RECURSIVE Utf8(_)
\* new Buffer(string): the UTF-8 bytes of the string (characters below U+0800)
Utf8(string) ==
  IF Len(string) = 0 THEN << >>
  ELSE (IF Head(string) < 128 THEN << Head(string) >>
        ELSE << 192 + (Head(string) \div 64), 128 + (Head(string) % 64) >>)
       \o Utf8(Tail(string))

\* i % 13 of the loop, for the 1-based position i of the model
KeyIndex(i) == ((i - 1) % KeyCycle) + 1

\* license_key[i % 13] is a character: the key is a string and has one there.
\* Otherwise the read gives undefined (or the key is undefined itself) and
\* .charCodeAt(0) throws a TypeError.
HasKeyChar(license_key, i) ==
  /\ license_key \notin {Undefined, Null}
  /\ KeyIndex(i) <= Len(license_key)

\* The outcome of _rumObfuscate(string, license_key): the base64 text, or the
\* TypeError thrown at the first byte whose key character is missing.
rumObfuscate(string, license_key) ==
  LET bytes == Utf8(string) IN
  IF \E i \in 1..Len(bytes) : ~HasKeyChar(license_key, i)
  THEN [threw |-> TRUE, value |-> << >>]
  ELSE [threw |-> FALSE,
        value |-> Base64([i \in 1..Len(bytes) |->
                    Xor(bytes[i], license_key[KeyIndex(i)], 8) % 256])]

---------------------------------------------------------------------------
(* The collaborators the API calls *)

NoTransaction ==
  [active |-> FALSE, partialName |-> Undefined, forceIgnore |-> Undefined,
   url |-> Undefined, verb |-> Undefined, queueTime |-> 0]

NewTransaction(url, verb) ==
  [active |-> TRUE, partialName |-> Undefined, forceIgnore |-> Undefined,
   url |-> url, verb |-> verb, queueTime |-> 5]

\* agent.tracer.getTransaction() / agent.getTransaction()
getTransaction == transaction

\* logger.warn / logger.error / logger.trace: one entry of the log
Warn(format, args)  == [level |-> "warn",  format |-> format, args |-> args]
Error(format, args) == [level |-> "error", format |-> format, args |-> args]
Trace(format, args) == [level |-> "trace", format |-> format, args |-> args]

\* agent.userNormalizer.addSimple(pattern, name): the rule store receives the
\* rule after the rules it received before.
addSimple(store, pattern, name) ==
  Append(store, [pattern |-> pattern, replacement |-> name])

\* How a call ends: it returns undefined, it returns a string (the sequence of
\* the segments of its text), or it throws.
ReturnedUndefined == [type |-> "undefined", value |-> << >>]
ReturnedString(segments) == [type |-> "string", value |-> segments]
Thrown == [type |-> "throw", value |-> <<"TypeError">>]
Idle   == [type |-> "none",  value |-> << >>]

NoBrowserMonitoring ==
  [defined |-> FALSE, enable |-> Undefined, browser_key |-> Undefined,
   debug |-> Undefined, js_agent_file |-> Undefined,
   js_agent_loader |-> Undefined, beacon |-> Undefined,
   error_beacon |-> Undefined]

BrowserMonitoring(enable, browser_key, debug) ==
  [defined |-> TRUE, enable |-> enable, browser_key |-> browser_key,
   debug |-> debug, js_agent_file |-> AgentFile,
   js_agent_loader |-> AgentLoader, beacon |-> Beacon,
   error_beacon |-> ErrorBeacon]

\* The configurations: each field the header reads, present or missing; the
\* license key is a string, of 13 characters or shorter.
Configs ==
  [license_key        : {KeyShort, Key13},
   application_id     : {Undefined, AppId},
   browser_monitoring : {NoBrowserMonitoring} \cup
                        {BrowserMonitoring(e, k, False) :
                           e \in {True, False}, k \in {Undefined, BrowserKey}} \cup
                        {BrowserMonitoring(True, BrowserKey, True)}]

DefaultConfig ==
  [license_key        |-> Key13,
   application_id     |-> AppId,
   browser_monitoring |-> BrowserMonitoring(True, BrowserKey, False)]

ObfIdle == [string |-> << >>, license_key |-> << >>, out |-> "idle",
            value |-> << >>]

---------------------------------------------------------------------------
(* The tracer: transactions begin and end outside the API *)

beginTransaction(url, verb) ==
  /\ ~transaction.active
  /\ transaction' = NewTransaction(url, verb)
  /\ errors' = << >>
  /\ log' = << >>
  /\ ret' = Idle
  /\ last' = [op |-> "beginTransaction", args |-> <<url, verb>>]
  /\ UNCHANGED <<config, rules, obf>>

endTransaction ==
  /\ transaction.active
  /\ transaction' = NoTransaction
  /\ errors' = << >>
  /\ log' = << >>
  /\ ret' = Idle
  /\ last' = [op |-> "endTransaction", args |-> << >>]
  /\ UNCHANGED <<config, rules, obf>>

---------------------------------------------------------------------------
(* API.prototype.setTransactionName *)

CustomNameBare(name) == name
\* NAMES.CUSTOM + '/' + name
CustomName(name) == CUSTOM \o Slash \o name

MissingNameGeneric(trans, withUrl, without) == Error(without, << >>)
\* the error logged for a missing name, with the URL when the transaction has one
MissingName(trans, withUrl, without) ==
  IF trans.active /\ Truthy(trans.url)
  THEN Error(withUrl, <<trans.url>>)
  ELSE Error(without, << >>)

setTransactionName(name) ==
  LET trans == getTransaction IN
  /\ IF ~trans.active THEN
       /\ log' = << Warn("No transaction found when setting name to '%s'.", <<name>>) >>
       /\ UNCHANGED transaction
     ELSE IF ~Truthy(name) THEN
       /\ log' = << MissingName(trans,
                      "Must include name in setTransactionName call for URL %s.",
                      "Must include name in setTransactionName call.") >>
       /\ UNCHANGED transaction
     ELSE
       /\ transaction' = [trans EXCEPT !.partialName = CustomName(name)]
       /\ log' = << >>
  /\ ret' = ReturnedUndefined
  /\ errors' = << >>
  /\ last' = [op |-> "setTransactionName", args |-> <<name>>]
  /\ UNCHANGED <<config, rules, obf>>

---------------------------------------------------------------------------
(* API.prototype.setControllerName *)

ActionAsGiven(action, verb) == action
\* action || transaction.verb || 'GET'
DefaultAction(action, verb) == Or(Or(action, verb), GET)

\* NAMES.CONTROLLER + '/' + name + '/' + action
ControllerName(name, action) == CONTROLLER \o Slash \o name \o Slash \o action

setControllerName(name, action) ==
  LET trans == getTransaction IN
  /\ IF ~trans.active THEN
       /\ log' = << Warn("No transaction found when setting controller to %s.", <<name>>) >>
       /\ UNCHANGED transaction
     ELSE IF ~Truthy(name) THEN
       /\ log' = << MissingName(trans,
                      "Must include name in setControllerName call for URL %s.",
                      "Must include name in setControllerName call.") >>
       /\ UNCHANGED transaction
     ELSE
       /\ transaction' = [trans EXCEPT !.partialName =
                            ControllerName(name, DefaultAction(action, trans.verb))]
       /\ log' = << >>
  /\ ret' = ReturnedUndefined
  /\ errors' = << >>
  /\ last' = [op |-> "setControllerName", args |-> <<name, action>>]
  /\ UNCHANGED <<config, rules, obf>>

---------------------------------------------------------------------------
(* API.prototype.setIgnoreTransaction *)

IgnoreOnly(trans, ignored) ==
  [trans EXCEPT !.forceIgnore = Or(ignored, trans.forceIgnore)]
\* transaction.forceIgnore = ignored
WriteForceIgnore(trans, ignored) == [trans EXCEPT !.forceIgnore = ignored]

setIgnoreTransaction(ignored) ==
  LET trans == getTransaction IN
  /\ IF ~trans.active THEN
       /\ log' = << Warn("No transaction found to ignore.", << >>) >>
       /\ UNCHANGED transaction
     ELSE
       /\ transaction' = WriteForceIgnore(trans, ignored)
       /\ log' = << >>
  /\ ret' = ReturnedUndefined
  /\ errors' = << >>
  /\ last' = [op |-> "setIgnoreTransaction", args |-> <<ignored>>]
  /\ UNCHANGED <<config, rules, obf>>

---------------------------------------------------------------------------
(* API.prototype.noticeError *)

ReportInTransaction(trans, error) ==
  IF trans.active THEN << [transaction |-> trans, error |-> error] >> ELSE << >>
\* this.agent.errors.add(transaction, error)
ErrorsAdd(trans, error) == << [transaction |-> trans, error |-> error] >>

noticeError(error) ==
  LET trans == getTransaction IN
  /\ errors' = ErrorsAdd(trans, error)
  /\ log' = << >>
  /\ ret' = ReturnedUndefined
  /\ last' = [op |-> "noticeError", args |-> <<error>>]
  /\ UNCHANGED <<config, transaction, rules, obf>>

---------------------------------------------------------------------------
(* API.prototype.addNamingRule and API.prototype.addIgnoringRule *)

NamingRuleAlways(name) == TRUE
\* the test of "if (!name) return logger.error(...)", negated
NamingRuleAccepted(name) == Truthy(name)

ReplacementBare(name) == name
\* '/' + name
Replacement(name) == Slash \o name

addNamingRule(pattern, name) ==
  /\ Len(rules) < MaxRules
  /\ IF ~NamingRuleAccepted(name) THEN
       /\ log' = << Error("Simple naming rules require a replacement name.", << >>) >>
       /\ UNCHANGED rules
     ELSE
       /\ rules' = addSimple(rules, pattern, Replacement(name))
       /\ log' = << >>
  /\ ret' = ReturnedUndefined
  /\ errors' = << >>
  /\ last' = [op |-> "addNamingRule", args |-> <<pattern, name>>]
  /\ UNCHANGED <<config, transaction, obf>>

addIgnoringRule(pattern) ==
  /\ Len(rules) < MaxRules
  /\ IF ~Truthy(pattern) THEN
       /\ log' = << Error("Must include a URL pattern to ignore.", << >>) >>
       /\ UNCHANGED rules
     ELSE
       /\ rules' = addSimple(rules, pattern, Null)
       /\ log' = << >>
  /\ ret' = ReturnedUndefined
  /\ errors' = << >>
  /\ last' = [op |-> "addIgnoringRule", args |-> <<pattern>>]
  /\ UNCHANGED <<config, transaction, obf>>

---------------------------------------------------------------------------
(* API.prototype.getBrowserTimingHeader *)

\* '<!-- NREUM: (' + num + ') -->'
Comment(num) == << "<!-- NREUM: (" \o ToString(num) \o ") -->" >>

\* The check that fails first, in the order of the source: the number passed to
\* _gracefail, or -1 when no check fails.
FirstFailure(conf, trans) ==
  IF ~conf.browser_monitoring.defined THEN 2
  ELSE IF ~Truthy(conf.browser_monitoring.enable) THEN 0
  ELSE IF ~trans.active THEN 1
  ELSE IF ~Truthy(trans.partialName) THEN 3
  ELSE IF ~Truthy(conf.application_id) THEN 4
  ELSE IF ~Truthy(conf.browser_monitoring.browser_key) THEN 5
  ELSE -1

\* rum_hash, with the obfuscated name
RumHash(conf, trans, time, transactionName) ==
  [agent           |-> conf.browser_monitoring.js_agent_file,
   beacon          |-> conf.browser_monitoring.beacon,
   errorBeacon     |-> conf.browser_monitoring.error_beacon,
   licenseKey      |-> conf.browser_monitoring.browser_key,
   applicationID   |-> conf.application_id,
   applicationTime |-> time,
   transactionName |-> transactionName,
   queueTime       |-> trans.queueTime,
   agentToken      |-> Null,
   ttGuid          |-> << >>]

\* JSON.stringify(rum_hash, null, tabs): the record and its indentation
Json(hash, debug) == [tabs |-> IF Truthy(debug) THEN 2 ELSE 0, hash |-> hash]

\* util.format(RUM_STUB, json, js_agent_loader)
Header(json, loader) == << RUM_STUB[1], json, RUM_STUB[2], loader, RUM_STUB[3] >>

getBrowserTimingHeader(time) ==
  LET conf  == config
      trans == getTransaction
      num   == FirstFailure(conf, trans)
      name  == rumObfuscate(trans.partialName, conf.license_key)
      out   == Header(Json(RumHash(conf, trans, time, name.value),
                           conf.browser_monitoring.debug),
                      conf.browser_monitoring.js_agent_loader)
  IN
  /\ IF num # -1 THEN
       /\ log' = << Warn(RUM_ISSUES[num + 1], << >>) >>
       /\ ret' = ReturnedString(Comment(num))
     ELSE IF name.threw THEN
       /\ log' = << >>
       /\ ret' = Thrown
     ELSE
       /\ log' = << Trace("generating RUM header", out) >>
       /\ ret' = ReturnedString(out)
  /\ errors' = << >>
  /\ last' = [op |-> "getBrowserTimingHeader", args |-> << >>]
  /\ UNCHANGED <<config, transaction, rules, obf>>

---------------------------------------------------------------------------
(* _rumObfuscate on its own inputs *)

CharSamples == {65, 122, 233}

RECURSIVE TextsOfLen(_)
TextsOfLen(n) ==
  IF n = 0 THEN {<< >>}
  ELSE {Append(t, b) : t \in TextsOfLen(n - 1), b \in CharSamples}

\* the texts obfuscated: the short ones, and two names longer than a key cycle
\* and than the keys
Texts ==
  UNION {TextsOfLen(n) : n \in 0..MaxTextLen}
    \cup {CustomName(Foo), ControllerName(Foo, GET)}

Keys == {KeyOne, KeyShort, Key13}

obfuscate ==
  /\ obf.out = "pending"
  /\ LET r == rumObfuscate(obf.string, obf.license_key) IN
       obf' = [obf EXCEPT !.out = IF r.threw THEN "threw" ELSE "returned",
                          !.value = r.value]
  /\ UNCHANGED <<config, transaction, rules, errors, log, ret, last>>

---------------------------------------------------------------------------
(* Specifications *)

InitApi ==
  /\ transaction = NoTransaction
  /\ rules = << >>
  /\ errors = << >>
  /\ log = << >>
  /\ ret = Idle
  /\ last = [op |-> "new", args |-> << >>]

\* the API over an agent that is configured as it should be
Init ==
  /\ config = DefaultConfig
  /\ obf = ObfIdle
  /\ InitApi

\* the API over an agent with any configuration
InitAnyConfig ==
  /\ config \in Configs
  /\ obf = ObfIdle
  /\ InitApi

\* _rumObfuscate called on a text and a key
InitObfuscate ==
  /\ config = DefaultConfig
  /\ obf \in [string : Texts, license_key : Keys, out : {"pending"},
              value : {<< >>}]
  /\ InitApi

Next ==
  \/ \E url \in Urls, verb \in Verbs : beginTransaction(url, verb)
  \/ endTransaction
  \/ \E name \in Names : setTransactionName(name)
  \/ \E name \in Names, action \in ActionArgs : setControllerName(name, action)
  \/ \E ignored \in Ignored : setIgnoreTransaction(ignored)
  \/ \E error \in ErrorValues : noticeError(error)
  \/ \E pattern \in Patterns, name \in RuleNames : addNamingRule(pattern, name)
  \/ \E pattern \in Patterns : addIgnoringRule(pattern)
  \/ \E time \in Durations : getBrowserTimingHeader(time)

NextObfuscate == obfuscate

Spec == Init /\ [][Next]_vars

SpecAnyConfig == InitAnyConfig /\ [][Next]_vars

SpecObfuscate == InitObfuscate /\ [][NextObfuscate]_vars

---------------------------------------------------------------------------
(* Properties *)

ApiOps ==
  {"setTransactionName", "setControllerName", "setIgnoreTransaction",
   "noticeError", "addNamingRule", "addIgnoringRule", "getBrowserTimingHeader"}

NamingOps == {"setTransactionName", "setControllerName"}

CustomSlash     == <<67, 117, 115, 116, 111, 109, 47>>                       \* "Custom/"
ControllerSlash == <<67, 111, 110, 116, 114, 111, 108, 108, 101, 114, 47>>   \* "Controller/"

\* one entry of the given level was logged, and nothing else
LoggedOne(entries, levels) == Len(entries) = 1 /\ entries[1].level \in levels

\* C1: no public operation ever throws to its caller, whatever the transaction,
\* the configuration and the arguments are, and getBrowserTimingHeader always
\* returns a string.
NoOperationThrows ==
  /\ last.op \in ApiOps => ret.type # "throw"
  /\ last.op = "getBrowserTimingHeader" => ret.type = "string"

\* The six checks of getBrowserTimingHeader in the order the specification
\* gives them, each with its code. getBrowserTimingHeader changes neither the
\* configuration nor the transaction, so the checks read the same before and
\* after the call.
ClaimedChecks ==
  << [code |-> 2, fails |-> ~config.browser_monitoring.defined],
     [code |-> 0, fails |-> ~Truthy(config.browser_monitoring.enable)],
     [code |-> 1, fails |-> ~transaction.active],
     [code |-> 3, fails |-> ~Truthy(transaction.partialName)],
     [code |-> 4, fails |-> ~Truthy(config.application_id)],
     [code |-> 5, fails |-> ~Truthy(config.browser_monitoring.browser_key)] >>

FailingChecks == {i \in 1..Len(ClaimedChecks) : ClaimedChecks[i].fails}

FirstFailingCode ==
  ClaimedChecks[CHOOSE i \in FailingChecks : \A j \in FailingChecks : i <= j].code

IsComment(call, code) ==
  /\ call.type = "string"
  /\ call.value = << "<!-- NREUM: (" \o ToString(code) \o ") -->" >>

IsScriptTag(call) ==
  /\ call.type = "string"
  /\ Len(call.value) = 5
  /\ call.value[1] =
       "<script type='text/javascript'>window.NREUM||(NREUM={});NREUM.info = "
  /\ call.value[5] = "</script>"

\* C2: getBrowserTimingHeader returns the comment of the first failing check,
\* in the order 2, 0, 1, 3, 4, 5, with exactly one warning carrying that code's
\* message, and it returns the script tag if and only if all six checks pass.
HeaderFollowsCheckOrder ==
  last.op = "getBrowserTimingHeader" =>
    IF FailingChecks # {}
    THEN /\ IsComment(ret, FirstFailingCode)
         /\ log = << Warn(RUM_ISSUES[FirstFailingCode + 1], << >>) >>
    ELSE IsScriptTag(ret)

\* The part of C2 about the failing checks alone, which the code satisfies.
HeaderFailuresFollowCheckOrder ==
  last.op = "getBrowserTimingHeader" /\ FailingChecks # {} =>
    /\ IsComment(ret, FirstFailingCode)
    /\ log = << Warn(RUM_ISSUES[FirstFailingCode + 1], << >>) >>
    /\ ~IsScriptTag(ret)

\* C3: with an active transaction and a non-empty name, setTransactionName sets
\* partialName to "Custom/" + name; with no active transaction it touches no
\* field and emits exactly one warning.
SetTransactionNameSetsCustomName ==
  [][last'.op = "setTransactionName" =>
       LET name == last'.args[1] IN
       /\ transaction.active /\ Truthy(name) =>
            transaction'.partialName = CustomSlash \o name
       /\ ~transaction.active =>
            /\ transaction' = transaction
            /\ config' = config /\ rules' = rules
            /\ LoggedOne(log', {"warn"})]_vars

SetTransactionNameWitness ==
  /\ last.op = "setTransactionName"
  /\ last.args = <<Foo>>
  /\ transaction.active
  /\ transaction.partialName = CustomSlash \o Foo
  /\ log = << >>

\* Whether a claim counts the value as given: any value but undefined, or,
\* with `nonEmpty`, only a non-empty one.
Given(v, nonEmpty) == IF nonEmpty THEN Truthy(v) ELSE v # Undefined

\* The action a claim gives for setControllerName: the argument when it is
\* given, else the verb when it is given, else GET.
ClaimedAction(action, verb, nonEmpty) ==
  IF Given(action, nonEmpty) THEN action
  ELSE IF Given(verb, nonEmpty) THEN verb ELSE <<71, 69, 84>>

SetControllerNameSets(nonEmpty) ==
  last'.op = "setControllerName" /\ transaction.active /\ Truthy(last'.args[1]) =>
    transaction'.partialName =
      ControllerSlash \o last'.args[1] \o <<47>>
        \o ClaimedAction(last'.args[2], transaction.verb, nonEmpty)

\* C4, as stated: with an active transaction and a non-empty name,
\* setControllerName sets partialName to "Controller/" + name + "/" + action
\* for every action; an omitted action is replaced by the transaction's verb,
\* and by "GET" when the verb is absent too.
SetControllerNameUsesAnyAction == [][SetControllerNameSets(FALSE)]_vars

\* C4, amended: the action is used when it is a non-empty string; an omitted
\* or empty action is replaced by the transaction's verb, and by "GET" when
\* the verb is absent or empty too.
SetControllerNameUsesNonEmptyAction == [][SetControllerNameSets(TRUE)]_vars

SetControllerNameWitness ==
  /\ last.op = "setControllerName"
  /\ last.args = <<Foo, << >> >>
  /\ transaction.active
  /\ transaction.verb = POST
  /\ transaction.partialName = ControllerSlash \o Foo \o <<47>> \o POST

\* C5: addNamingRule with an empty pattern and a non-empty name registers
\* nothing and logs an error; with a non-empty pattern p and a non-empty name n
\* it registers exactly the rule p -> "/" + n.
AddNamingRuleRejectsEmptyPattern ==
  [][last'.op = "addNamingRule" =>
       LET pattern == last'.args[1]
           name    == last'.args[2] IN
       /\ pattern = << >> /\ Truthy(name) =>
            rules' = rules /\ LoggedOne(log', {"error"})
       /\ Truthy(pattern) /\ Truthy(name) =>
            rules' = Append(rules, [pattern |-> pattern,
                                    replacement |-> <<47>> \o name])]_vars

\* C5, amended: addNamingRule rejects an empty name and nothing else: with an
\* empty name it registers nothing and logs an error, whatever the pattern is;
\* with a non-empty name n it hands the rule p -> "/" + n to the rule store
\* and logs nothing, whatever the pattern p is, the empty one included.
AddNamingRuleRejectsEmptyName ==
  [][last'.op = "addNamingRule" =>
       LET pattern == last'.args[1]
           name    == last'.args[2] IN
       /\ ~Truthy(name) => rules' = rules /\ LoggedOne(log', {"error"})
       /\ Truthy(name) =>
            /\ rules' = Append(rules, [pattern |-> pattern,
                                       replacement |-> <<47>> \o name])
            /\ log' = << >>]_vars

AddNamingRuleWitness ==
  /\ last.op = "addNamingRule"
  /\ last.args = << << >>, NameB >>
  /\ rules # << >>
  /\ rules[Len(rules)] = [pattern |-> << >>, replacement |-> <<47>> \o NameB]
  /\ log = << >>

\* The decoder of the obfuscated name: base64 decoding, XOR with the key
\* repeated cyclically, UTF-8 decoding.
B64Digit(c) ==
  IF c >= 65 /\ c <= 90 THEN c - 65
  ELSE IF c >= 97 /\ c <= 122 THEN c - 97 + 26
  ELSE IF c >= 48 /\ c <= 57 THEN c - 48 + 52
  ELSE IF c = 43 THEN 62 ELSE 63

RECURSIVE Base64Decode(_)
Base64Decode(text) ==
  IF Len(text) < 4 THEN << >>
  ELSE LET d1 == B64Digit(text[1])
           d2 == B64Digit(text[2])
           d3 == B64Digit(text[3])
           d4 == B64Digit(text[4])
           rest == Base64Decode(SubSeq(text, 5, Len(text)))
       IN  IF text[3] = 61 THEN << d1 * 4 + (d2 \div 16) >>
           ELSE IF text[4] = 61
             THEN << d1 * 4 + (d2 \div 16), (d2 % 16) * 16 + (d3 \div 4) >>
           ELSE << d1 * 4 + (d2 \div 16), (d2 % 16) * 16 + (d3 \div 4),
                   (d3 % 4) * 64 + d4 >> \o rest

XorCyclic(bytes, key) ==
  [i \in 1..Len(bytes) |-> Xor(bytes[i], key[((i - 1) % Len(key)) + 1], 8)]

RECURSIVE Utf8Decode(_)
Utf8Decode(bytes) ==
  IF Len(bytes) = 0 THEN << >>
  ELSE IF bytes[1] < 128 \/ Len(bytes) = 1
    THEN << bytes[1] >> \o Utf8Decode(Tail(bytes))
  ELSE << (bytes[1] - 192) * 64 + (bytes[2] - 128) >>
         \o Utf8Decode(SubSeq(bytes, 3, Len(bytes)))

Deobfuscate(text, key) == Utf8Decode(XorCyclic(Base64Decode(text), key))

\* C6: for every text and every non-empty key of 13 or fewer characters,
\* _rumObfuscate produces a result, and decoding it (base64, then XOR with the
\* same cyclic key) gives the text back.
ObfuscateRoundTrip ==
  obf.out \in {"returned", "threw"} /\ Len(obf.license_key) \in 1..KeyCycle =>
    /\ obf.out = "returned"
    /\ Deobfuscate(obf.value, obf.license_key) = obf.string

\* The round trip of the results _rumObfuscate does produce.
ObfuscateRoundTripWhenReturned ==
  obf.out = "returned" =>
    Deobfuscate(obf.value, obf.license_key) = obf.string

\* C7: the rule store grows only by (pattern, "/" + name) at its end for an
\* addNamingRule call with a non-empty name, and by (pattern, null) at its end
\* for an addIgnoringRule call with a non-empty pattern; every other call,
\* the rejected ones included, leaves it as it is. From the empty store this
\* makes it the list, in call order, of the accepted calls.
RuleStoreIsAcceptedCallsInOrder ==
  [][rules' =
       IF last'.op = "addNamingRule" /\ Truthy(last'.args[2])
         THEN Append(rules, [pattern |-> last'.args[1],
                             replacement |-> <<47>> \o last'.args[2]])
       ELSE IF last'.op = "addIgnoringRule" /\ Truthy(last'.args[1])
         THEN Append(rules, [pattern |-> last'.args[1], replacement |-> Null])
       ELSE rules]_vars

RuleStoreWitness ==
  /\ rules = << [pattern |-> PatternA, replacement |-> Null],
                [pattern |-> PatternA, replacement |-> <<47>> \o NameB] >>
  /\ last.op = "setTransactionName"

\* C8: every noticeError(error) call forwards exactly one report, of the
\* current transaction (none when no transaction is active) and the error as
\* given, and does not change the transaction.
NoticeErrorForwardsOneReport ==
  [][last'.op = "noticeError" =>
       /\ errors' = << [transaction |-> IF transaction.active THEN transaction
                                        ELSE NoTransaction,
                        error |-> last'.args[1]] >>
       /\ transaction' = transaction]_vars

NoticeErrorWitness ==
  /\ last.op = "noticeError"
  /\ last.args = <<Undefined>>
  /\ ~transaction.active
  /\ Len(errors) = 1
  /\ ~errors[1].transaction.active

\* C9: with an active transaction setIgnoreTransaction(b) sets forceIgnore to b
\* and changes nothing else of the transaction; setTransactionName and
\* setControllerName never change forceIgnore, so that forceIgnore is the
\* argument of the most recent setIgnoreTransaction call; with no active
\* transaction the call changes nothing and emits a warning.
SetIgnoreTransactionSetsForceIgnore ==
  [][/\ last'.op = "setIgnoreTransaction" =>
          IF transaction.active
          THEN transaction' = [transaction EXCEPT !.forceIgnore = last'.args[1]]
          ELSE /\ transaction' = transaction
               /\ config' = config /\ rules' = rules
               /\ LoggedOne(log', {"warn"})
     /\ last'.op \in NamingOps =>
          transaction'.forceIgnore = transaction.forceIgnore]_vars

SetIgnoreTransactionWitness ==
  /\ last.op = "setIgnoreTransaction"
  /\ last.args = <<False>>
  /\ transaction.active
  /\ transaction.forceIgnore = False
  /\ Truthy(transaction.partialName)

\* the name the call gives is the one written: partialName is "Custom/" + name,
\* or starts with "Controller/" + name + "/"
NameWritten(op, name, partialName) ==
  IF op = "setTransactionName" THEN partialName = CustomSlash \o name
  ELSE LET prefix == ControllerSlash \o name \o <<47>> IN
       /\ Len(partialName) > Len(prefix)
       /\ SubSeq(partialName, 1, Len(prefix)) = prefix

\* C10: a call of setTransactionName or setControllerName either writes
\* partialName (and nothing else, and logs nothing) or logs one warning or error
\* (and writes nothing), never both and never neither; with a transaction and
\* an empty or missing name it logs one error, with the transaction's URL when
\* it is known and the generic message otherwise, and partialName stays.
NamingCallWritesOrLogs ==
  [][last'.op \in NamingOps =>
       LET name   == last'.args[1]
           wrote  == /\ transaction.active
                     /\ transaction' =
                          [transaction EXCEPT !.partialName = transaction'.partialName]
                     /\ NameWritten(last'.op, name, transaction'.partialName)
           logged == LoggedOne(log', {"warn", "error"})
       IN
       /\ (wrote /\ log' = << >>) \/ (logged /\ transaction' = transaction)
       /\ ~(wrote /\ log' = << >> /\ logged /\ transaction' = transaction)
       /\ transaction.active /\ ~Truthy(name) =>
            /\ LoggedOne(log', {"error"})
            /\ log'[1].args = IF Truthy(transaction.url)
                                THEN <<transaction.url>> ELSE << >>
            /\ transaction'.partialName = transaction.partialName]_vars

NamingCallWitness ==
  /\ last.op = "setControllerName"
  /\ last.args[1] = << >>
  /\ transaction.active
  /\ LoggedOne(log, {"error"})
  /\ log[1].args = <<UrlX>>
  /\ transaction.partialName = CustomSlash \o Foo

====
